---- MODULE Spec2Model ----
(***************************************************************************)
(* SuperParallax (src/src/super-parallax.js): the 2D parallax controller,  *)
(* its frame loop (start / stop / animate / destroy), its input callbacks  *)
(* and its layer registry, together with the part of the browser it talks  *)
(* to: the scroll position, the container's rectangle, the inline          *)
(* transforms of the elements, the registered listeners and the list of    *)
(* animation-frame callbacks.  The frame loop of SuperParallax3D           *)
(* (src/src/super-parallax-3d.js: lerp, animate's smoothing, start, stop)  *)
(* is the same code line for line.                                         *)
(*                                                                         *)
(* Numbers.  JavaScript numbers are modelled as exact fixed-point values.  *)
(* A scalar of the smoothing state (scroll, mouse.x, ...) is an integer    *)
(* counting units of 1/Unit; speeds, multipliers and the smoothing factor  *)
(* are integers counting tenths; a translation of a transform counts       *)
(* units of 1/(200*Unit).  Unit has one decimal digit per executed tick,   *)
(* so no lerp ever rounds (LerpIsExact).                                   *)
(***************************************************************************)
EXTENDS Integers, Sequences, FiniteSets, TLC

\* Bounds of the model.
MaxTicks == 2
MaxLayers == 2
MaxBurst == 2

Unit == 10 ^ MaxTicks

Elements == {"e1", "e2"}

\* ------------------------------------------------------------------------
\* Transform strings.  A transform string is a sequence of transform
\* functions; '' is the empty sequence.
\* ------------------------------------------------------------------------
EmptyString == << >>

\* translate3d(${x}px, ${y}px, 0)
translate3d(x, y) == [f |-> "translate3d", m |-> "I", x |-> x, y |-> y]

\* The value of a computed transform: 'none', or matrix(...) standing for
\* the linear map m followed (in m's frame) by the translation (x, y).
ComputedNone == [f |-> "none", m |-> "I", x |-> 0, y |-> 0]

\* The stylesheet gives e1 no transform and e2 a transform that resolves to
\* the matrix "M".
StylesheetTransform(element) ==
    IF element = "e2" THEN [f |-> "matrix", m |-> "M", x |-> 0, y |-> 0]
    ELSE ComputedNone

\* The matrix a non-empty inline transform string resolves to: the product of
\* its functions, left to right.  Every function after the first is a
\* translate3d (m = "I"), and a translation composes by addition.
RECURSIVE ResolveFrom(_, _, _)
ResolveFrom(str, i, acc) ==
    IF i > Len(str) THEN acc
    ELSE ResolveFrom(str, i + 1,
                     [f |-> "matrix", m |-> acc.m,
                      x |-> acc.x + str[i].x, y |-> acc.y + str[i].y])

Resolve(str) ==
    ResolveFrom(str, 2, [f |-> "matrix", m |-> str[1].m, x |-> str[1].x, y |-> str[1].y])

\* window.getComputedStyle(element).transform
getComputedTransform(s, element) ==
    IF s.style[element] = EmptyString THEN StylesheetTransform(element)
    ELSE Resolve(s.style[element])

\* What the element looks like: the matrix of its computed transform, 'none'
\* being the identity.
Pose(computed) == [m |-> computed.m, x |-> computed.x, y |-> computed.y]

RenderedPose(s, element) == Pose(getComputedTransform(s, element))

\* The pose an element has before the controller writes any transform to it.
BasePose(element) == Pose(StylesheetTransform(element))

\* ------------------------------------------------------------------------
\* Optional values: << >> is absent (null, undefined, NaN), <<v>> is v.
\* ------------------------------------------------------------------------
Absent == << >>
Some(v) == <<v>>

\* parseFloat(attr) || fallback: the fallback replaces NaN and 0.
ParseFloatOr(attr, fallback) ==
    IF attr = Absent \/ attr[1] = 0 THEN fallback ELSE attr[1]

\* A default parameter: the default replaces undefined only.
DefaultParam(arg, default) ==
    IF arg = Absent THEN default ELSE arg[1]

\* ------------------------------------------------------------------------
\* The environment's inputs.
\* ------------------------------------------------------------------------
\* window.pageYOffset, in pixels.
ScrollPositions == {0, 100}

\* container.getBoundingClientRect()
Rects == { [left |-> 0, top |-> 0, width |-> 2, height |-> 2],
           [left |-> 1, top |-> 0, width |-> 1, height |-> 2] }

\* mousemove events
MouseEvents == { [clientX |-> 2, clientY |-> 0] }

\* The pointer events that can follow one another between two frames: the
\* pointer moves over the container, or leaves it.
PointerEvents ==
    { [type |-> "mousemove", clientX |-> 2, clientY |-> 0],
      [type |-> "mouseleave", clientX |-> 0, clientY |-> 0] }

\* The markup of the container: the [data-parallax-layer] elements in
\* document order with their data-parallax-* attributes (numbers in tenths).
LayerMarkup(element, depth, scroll, mouse, axis) ==
    [element |-> element, depth |-> depth, scroll |-> scroll, mouse |-> mouse,
     axis |-> axis]

Documents ==
    { << >>,
      << LayerMarkup("e1", Absent, Absent, Absent, Absent) >>,
      << LayerMarkup("e1", Some(10), Some(10), Some(0), Some("y")),
         LayerMarkup("e2", Some(5), Some(0), Absent, Some("x")) >> }

\* The options objects given to the constructor and to setOptions.
ConstructorOptions ==
    { << >>,
      [centerMouse |-> FALSE, resetOnMouseLeave |-> FALSE] }

NewOptions ==
    { [smoothing |-> 10],
      [resetOnMouseLeave |-> FALSE],
      [resetOnMouseLeave |-> TRUE] }

\* The arguments of addLayer after the element: depth, scrollSpeed,
\* mouseSpeed, each optional.
AddLayerArgs ==
    { [depth |-> Some(5), scrollSpeed |-> Some(0), mouseSpeed |-> Absent] }

\* { ...a, ...b }
Spread(a, b) ==
    [k \in (DOMAIN a) \cup (DOMAIN b) |-> IF k \in DOMAIN b THEN b[k] ELSE a[k]]

\* ------------------------------------------------------------------------
\* The state.  The first nine variables are the fields of the controller
\* (this.*); the next six are the browser's; the last five are history
\* variables the code does not have.
\* ------------------------------------------------------------------------
VARIABLES
    options,            \* this.options
    layers,             \* this.layers
    mouse,              \* this.mouse
    targetMouse,        \* this.targetMouse
    scroll,             \* this.scroll
    targetScroll,       \* this.targetScroll
    bounds,             \* this.bounds: Absent (null) or Some(rect)
    animationFrameId,   \* this.animationFrameId: 0 is null
    isActive,           \* this.isActive
    pageYOffset,        \* window.pageYOffset
    rect,               \* the container's bounding rectangle
    style,              \* element.style.transform of every element
    listeners,          \* the event types with a listener of this controller
    rafPending,         \* handles of the animation-frame callbacks requested
    rafNextId,          \* the handle the next requestAnimationFrame returns
    ticks,              \* history: executions of animate's body so far
    destroyed,          \* history: destroy() has been called
    thrown,             \* history: the Error the constructor threw, or Absent
    given,              \* history: what the constructor was called with
    op                  \* history: the last operation and what it found

cvars == << options, layers, mouse, targetMouse, scroll, targetScroll, bounds,
            animationFrameId, isActive >>
evars == << pageYOffset, rect, style, listeners, rafPending, rafNextId >>
vars == << options, layers, mouse, targetMouse, scroll, targetScroll, bounds,
           animationFrameId, isActive, pageYOffset, rect, style, listeners,
           rafPending, rafNextId, ticks, destroyed, thrown, given, op >>

\* The state as one record s: the methods below are functions from the
\* state before the call to the state after it.
Cur ==
    [ options |-> options, layers |-> layers, mouse |-> mouse,
      targetMouse |-> targetMouse, scroll |-> scroll,
      targetScroll |-> targetScroll, bounds |-> bounds,
      animationFrameId |-> animationFrameId, isActive |-> isActive,
      pageYOffset |-> pageYOffset, rect |-> rect, style |-> style,
      listeners |-> listeners, rafPending |-> rafPending,
      rafNextId |-> rafNextId, ticks |-> ticks, destroyed |-> destroyed,
      thrown |-> thrown ]

Becomes(s) ==
    /\ options' = s.options
    /\ layers' = s.layers
    /\ mouse' = s.mouse
    /\ targetMouse' = s.targetMouse
    /\ scroll' = s.scroll
    /\ targetScroll' = s.targetScroll
    /\ bounds' = s.bounds
    /\ animationFrameId' = s.animationFrameId
    /\ isActive' = s.isActive
    /\ pageYOffset' = s.pageYOffset
    /\ rect' = s.rect
    /\ style' = s.style
    /\ listeners' = s.listeners
    /\ rafPending' = s.rafPending
    /\ rafNextId' = s.rafNextId
    /\ ticks' = s.ticks
    /\ destroyed' = s.destroyed
    /\ thrown' = s.thrown

\* ------------------------------------------------------------------------
\* The browser's frame scheduler.
\* ------------------------------------------------------------------------
\* this.animationFrameId = requestAnimationFrame(this.animate)
requestAnimationFrame(s) ==
    [s EXCEPT !.animationFrameId = s.rafNextId,
              !.rafPending = @ \cup {s.rafNextId},
              !.rafNextId = @ + 1]

cancelAnimationFrame(s, id) == [s EXCEPT !.rafPending = @ \ {id}]

\* document.documentElement.scrollTop: the document's vertical scroll offset,
\* the number window.pageYOffset is.
scrollTop(s) == s.pageYOffset

\* window.pageYOffset || document.documentElement.scrollTop
externalScroll(s) == IF s.pageYOffset # 0 THEN s.pageYOffset ELSE scrollTop(s)

\* ------------------------------------------------------------------------
\* SuperParallax
\* ------------------------------------------------------------------------
getInitialTransform(s, element) ==
    LET transform == getComputedTransform(s, element)
    IN  IF transform.f # "none" THEN << transform >> ELSE EmptyString

updateBounds(s) == [s EXCEPT !.bounds = Some(s.rect)]

addEventListeners(s) ==
    [s EXCEPT !.listeners =
        @ \cup {"scroll", "mousemove"}
          \cup (IF s.options.resetOnMouseLeave THEN {"mouseleave"} ELSE {})
          \cup {"resize"}]

\* removeEventListeners without the scroll listener.
removeEventListenersKeepsScroll(s) ==
    [s EXCEPT !.listeners = @ \ {"mousemove", "mouseleave", "resize"}]

removeEventListeners(s) ==
    [s EXCEPT !.listeners = @ \ {"scroll", "mousemove", "mouseleave", "resize"}]

\* handleScroll keeping the farthest position scrolled to since it was read.
handleScrollKeepsMax(s) ==
    [s EXCEPT !.targetScroll =
        IF externalScroll(s) * Unit > @ THEN externalScroll(s) * Unit ELSE @]

\* handleScroll writing the smoothed value as well as the target.
handleScrollSnaps(s) ==
    [s EXCEPT !.targetScroll = externalScroll(s) * Unit,
              !.scroll = externalScroll(s) * Unit]

handleScroll(s) == [s EXCEPT !.targetScroll = externalScroll(s) * Unit]

handleMouseMove(s, event) ==
    LET s1 == IF s.bounds = Absent THEN updateBounds(s) ELSE s
        b == s1.bounds[1]
    IN  IF s1.options.centerMouse
        THEN [s1 EXCEPT !.targetMouse =
                [x |-> ((2 * (event.clientX - b.left) - b.width) * Unit) \div b.width,
                 y |-> ((2 * (event.clientY - b.top) - b.height) * Unit) \div b.height]]
        ELSE [s1 EXCEPT !.targetMouse =
                [x |-> (event.clientX - b.left) * Unit,
                 y |-> (event.clientY - b.top) * Unit]]

handleMouseLeave(s) == [s EXCEPT !.targetMouse = [x |-> 0, y |-> 0]]

\* lerp stepping away from end.
lerpAway(start, end, factor) == start - ((end - start) * factor) \div 10

\* lerp without its first term.
lerpDropsStart(start, end, factor) == ((end - start) * factor) \div 10

\* start + (end - start) * factor, factor in tenths
lerp(start, end, factor) == start + ((end - start) * factor) \div 10

\* The transform string without the axis mask: every layer moves as 'both'.
layerTransformUnmasked(s, layer) ==
    LET scrollOffset == s.scroll * layer.scrollSpeed * s.options.scrollMultiplier
        mouseOffsetX == s.mouse.x * layer.mouseSpeed * s.options.mouseMultiplier * 100
        mouseOffsetY == s.mouse.y * layer.mouseSpeed * s.options.mouseMultiplier * 100
        transform == << translate3d(mouseOffsetX, (- scrollOffset) + mouseOffsetY) >>
    IN  IF layer.initialTransform # EmptyString
        THEN layer.initialTransform \o transform
        ELSE transform

\* The transform string animate writes to one layer's element.
layerTransform(s, layer) ==
    LET scrollOffset == s.scroll * layer.scrollSpeed * s.options.scrollMultiplier
        mouseOffsetX == s.mouse.x * layer.mouseSpeed * s.options.mouseMultiplier * 100
        mouseOffsetY == s.mouse.y * layer.mouseSpeed * s.options.mouseMultiplier * 100
        translateX == IF layer.axis = "both" \/ layer.axis = "x"
                      THEN mouseOffsetX ELSE 0
        translateY == IF layer.axis = "both" \/ layer.axis = "y"
                      THEN (- scrollOffset) + mouseOffsetY
                      ELSE IF layer.axis = "x" THEN - scrollOffset ELSE 0
        transform == << translate3d(translateX, translateY) >>
    IN  IF layer.initialTransform # EmptyString
        THEN layer.initialTransform \o transform
        ELSE transform

\* this.layers.forEach(layer => { ... layer.element.style.transform = ... })
RECURSIVE updateLayers(_, _)
updateLayers(s, i) ==
    IF i > Len(s.layers) THEN s
    ELSE updateLayers(
            [s EXCEPT !.style[s.layers[i].element] = layerTransform(s, s.layers[i])],
            i + 1)

\* animate ending the loop once nothing is left to smooth.
animateUntilSettled(s) ==
    IF ~ s.isActive THEN s
    ELSE LET s1 == [s EXCEPT
                      !.scroll = lerp(s.scroll, s.targetScroll, s.options.smoothing),
                      !.mouse = [x |-> lerp(s.mouse.x, s.targetMouse.x, s.options.smoothing),
                                 y |-> lerp(s.mouse.y, s.targetMouse.y, s.options.smoothing)],
                      !.ticks = @ + 1]
             s2 == updateLayers(s1, 1)
         IN  IF s2.scroll = s2.targetScroll /\ s2.mouse = s2.targetMouse
             THEN s2
             ELSE requestAnimationFrame(s2)

animate(s) ==
    IF ~ s.isActive THEN s
    ELSE LET s1 == [s EXCEPT
                      !.scroll = lerp(s.scroll, s.targetScroll, s.options.smoothing),
                      !.mouse = [x |-> lerp(s.mouse.x, s.targetMouse.x, s.options.smoothing),
                                 y |-> lerp(s.mouse.y, s.targetMouse.y, s.options.smoothing)],
                      !.ticks = @ + 1]
         IN  requestAnimationFrame(updateLayers(s1, 1))

\* start without "this.scroll = this.targetScroll".
startUnseeded(s) ==
    IF s.isActive THEN s
    ELSE animate([s EXCEPT !.isActive = TRUE,
                           !.targetScroll = externalScroll(s) * Unit])

\* start without "if (this.isActive) return".
startUnguarded(s) ==
    animate([s EXCEPT !.isActive = TRUE,
                      !.targetScroll = externalScroll(s) * Unit,
                      !.scroll = externalScroll(s) * Unit])

start(s) ==
    IF s.isActive THEN s
    ELSE animate([s EXCEPT !.isActive = TRUE,
                           !.targetScroll = externalScroll(s) * Unit,
                           !.scroll = externalScroll(s) * Unit])

\* stop without cancelAnimationFrame.
stopKeepsFrame(s) == [s EXCEPT !.isActive = FALSE]

\* stop written as a pause / resume toggle.
stopToggles(s) ==
    LET s1 == [s EXCEPT !.isActive = ~ @]
    IN  IF s1.animationFrameId # 0
        THEN [cancelAnimationFrame(s1, s1.animationFrameId) EXCEPT !.animationFrameId = 0]
        ELSE s1

\* stop forgetting the pending frame instead of cancelling it.
stopForgetsFrame(s) == [s EXCEPT !.isActive = FALSE, !.animationFrameId = 0]

\* stop ending the smoothing: the smoothed values jump to their targets.
stopSnaps(s) ==
    LET s1 == [s EXCEPT !.isActive = FALSE, !.scroll = s.targetScroll,
                        !.mouse = s.targetMouse]
    IN  IF s1.animationFrameId # 0
        THEN [cancelAnimationFrame(s1, s1.animationFrameId) EXCEPT !.animationFrameId = 0]
        ELSE s1

stop(s) ==
    LET s1 == [s EXCEPT !.isActive = FALSE]
    IN  IF s1.animationFrameId # 0
        THEN [cancelAnimationFrame(s1, s1.animationFrameId) EXCEPT !.animationFrameId = 0]
        ELSE s1

\* destroy()'s forEach: reset layer transforms.
RECURSIVE resetLayers(_, _)
resetLayers(s, i) ==
    IF i > Len(s.layers) THEN s
    ELSE resetLayers(
            [s EXCEPT !.style[s.layers[i].element] =
                IF s.layers[i].initialTransform # EmptyString
                THEN s.layers[i].initialTransform ELSE EmptyString],
            i + 1)

destroy(s) ==
    [resetLayers(removeEventListeners(stop(s)), 1)
        EXCEPT !.layers = << >>, !.destroyed = TRUE]

addLayer(s, element, depth, scrollSpeed, mouseSpeed) ==
    LET d == DefaultParam(depth, 10)
        layer == [element |-> element,
                  depth |-> d,
                  scrollSpeed |-> DefaultParam(scrollSpeed, d),
                  mouseSpeed |-> DefaultParam(mouseSpeed, d),
                  axis |-> "both",
                  initialTransform |-> getInitialTransform(s, element)]
    IN  [s EXCEPT !.layers = Append(@, layer)]

\* this.layers.findIndex(layer => layer.element === element): 0 is -1
findIndex(s, element) ==
    IF \E i \in 1..Len(s.layers) : s.layers[i].element = element
    THEN CHOOSE i \in 1..Len(s.layers) :
            /\ s.layers[i].element = element
            /\ \A j \in 1..(i - 1) : s.layers[j].element # element
    ELSE 0

removeLayer(s, element) ==
    LET index == findIndex(s, element)
    IN  IF index # 0
        THEN [s EXCEPT !.layers = SubSeq(@, 1, index - 1) \o SubSeq(@, index + 1, Len(@))]
        ELSE s

setOptions(s, newOptions) == [s EXCEPT !.options = Spread(s.options, newOptions)]

\* init()'s map over the [data-parallax-layer] elements
discoverLayer(s, markup) ==
    LET depth == ParseFloatOr(markup.depth, 10)
    IN  [element |-> markup.element,
         depth |-> depth,
         scrollSpeed |-> ParseFloatOr(markup.scroll, depth),
         mouseSpeed |-> ParseFloatOr(markup.mouse, depth),
         axis |-> IF markup.axis = Absent THEN "both" ELSE markup.axis[1],
         initialTransform |-> getInitialTransform(s, markup.element)]

init(s, document) ==
    LET s1 == [s EXCEPT !.layers = [i \in 1..Len(document) |-> discoverLayer(s, document[i])]]
    IN  start(addEventListeners(updateBounds(s1)))

DefaultOptions ==
    [scrollMultiplier |-> 10, mouseMultiplier |-> 5, smoothing |-> 1,
     centerMouse |-> TRUE, resetOnMouseLeave |-> TRUE]

\* What the constructor is given as its container once a selector string is
\* resolved: an element, or nothing (null, or a selector that matches none).
Containers == { Absent, Some("container") }

\* The fields as the constructor's "State" block sets them, in a page scrolled
\* to y whose container has the rectangle r; no options yet.
NewState(y, r) ==
    [ options |-> << >>,
      layers |-> << >>,
      mouse |-> [x |-> 0, y |-> 0],
      targetMouse |-> [x |-> 0, y |-> 0],
      scroll |-> 0,
      targetScroll |-> 0,
      bounds |-> Absent,
      animationFrameId |-> 0,
      isActive |-> FALSE,
      pageYOffset |-> y,
      rect |-> r,
      style |-> [e \in Elements |-> EmptyString],
      listeners |-> {},
      rafPending |-> {},
      rafNextId |-> 1,
      ticks |-> 0,
      destroyed |-> FALSE,
      thrown |-> Absent ]

\* throw new Error(message): the call ends here.
Throw(s, message) == [s EXCEPT !.thrown = Some(message)]

\* The constructor with its container check moved after this.init().
constructorChecksLast(container, opts, document, y, r) ==
    LET s == init([NewState(y, r) EXCEPT !.options = Spread(DefaultOptions, opts)],
                  document)
    IN  IF container = Absent THEN Throw(s, "Container element not found") ELSE s

\* new SuperParallax(container, opts), in a page scrolled to y whose
\* container has the rectangle r and the markup document.
constructor(container, opts, document, y, r) ==
    IF container = Absent
    THEN Throw(NewState(y, r), "Container element not found")
    ELSE init([NewState(y, r) EXCEPT !.options = Spread(DefaultOptions, opts)],
              document)

\* new SuperParallax3D(container, opts) up to its two throw statements: the
\* message of the Error it throws, or Absent when it goes on to build the
\* scene.  THREE is whether the global THREE is defined.
constructor3DThrows(THREE, container) ==
    IF ~THREE
    THEN Some("Three.js is required. Include it before SuperParallax3D.")
    ELSE IF container = Absent
         THEN Some("Container element not found")
         ELSE Absent

\* ------------------------------------------------------------------------
\* The specification: the state after construction, then any sequence of the
\* public operations, the events of the page and the browser's frames.
\* ------------------------------------------------------------------------
\* The elements with a layer in the registry.
TrackedElements(s) == { s.layers[i].element : i \in 1..Len(s.layers) }

\* No depth, scrollSpeed or mouseSpeed given.
NoArgs == [depth |-> Absent, scrollSpeed |-> Absent, mouseSpeed |-> Absent]

\* op: the name of the last operation, the element it was given (addLayer,
\* removeLayer), the numbers it was given (addLayer), and what held when it
\* was called: the controller was active, the registry, and the elements that
\* were in it.  given does not change after the constructor.
DidWith(name, arg, args) ==
    /\ op' = [name |-> name, arg |-> arg, args |-> args, active |-> isActive,
              layers |-> layers, tracked |-> TrackedElements(Cur)]
    /\ given' = given

Did(name, arg) == DidWith(name, arg, NoArgs)

\* There is a controller: the constructor returned.
Constructed == thrown = Absent

\* animate's body runs at most MaxTicks times after construction (ticks
\* counts from the constructor's return: the tick start() runs inside the
\* constructor lerps scroll and mouse from and to the same numbers).
Bounded(s) == s.ticks <= MaxTicks

\* The variables are the fields of s, and no tick is counted yet.
Starts(s) ==
    /\ options = s.options
    /\ layers = s.layers
    /\ mouse = s.mouse
    /\ targetMouse = s.targetMouse
    /\ scroll = s.scroll
    /\ targetScroll = s.targetScroll
    /\ bounds = s.bounds
    /\ animationFrameId = s.animationFrameId
    /\ isActive = s.isActive
    /\ pageYOffset = s.pageYOffset
    /\ rect = s.rect
    /\ style = s.style
    /\ listeners = s.listeners
    /\ rafPending = s.rafPending
    /\ rafNextId = s.rafNextId
    /\ ticks = 0
    /\ destroyed = s.destroyed
    /\ thrown = s.thrown

\* No operation since the constructor.
New ==
    [name |-> "new", arg |-> "", args |-> NoArgs, active |-> FALSE,
     layers |-> << >>, tracked |-> {}]

\* new SuperParallax(container, opts): a container that is not found has no
\* markup to discover.
Init2D ==
    \E container \in Containers, opts \in ConstructorOptions,
       document \in Documents, y \in ScrollPositions, r \in Rects :
        /\ container = Absent => document = << >>
        /\ Starts(constructor(container, opts, document, y, r))
        /\ op = New
        /\ given = [class |-> "SuperParallax", THREE |-> FALSE,
                    container |-> container, document |-> document]

\* new SuperParallax3D(container, opts) that throws.  A SuperParallax3D that
\* constructs is outside this model.
Init3D ==
    \E THREE \in BOOLEAN, container \in Containers,
       y \in ScrollPositions, r \in Rects :
        /\ constructor3DThrows(THREE, container) # Absent
        /\ Starts([NewState(y, r) EXCEPT !.thrown = constructor3DThrows(THREE, container)])
        /\ op = New
        /\ given = [class |-> "SuperParallax3D", THREE |-> THREE,
                    container |-> container, document |-> << >>]

Init == Init2D \/ Init3D

Start ==
    /\ Constructed
    /\ Bounded(start(Cur))
    /\ Becomes(start(Cur))
    /\ Did("start", "")

Stop ==
    /\ Constructed
    /\ Becomes(stop(Cur))
    /\ Did("stop", "")

Destroy ==
    /\ Constructed
    /\ Becomes(destroy(Cur))
    /\ Did("destroy", "")

AddLayer ==
    \E element \in Elements, args \in AddLayerArgs :
        /\ Constructed
        /\ Len(layers) < MaxLayers
        /\ Becomes(addLayer(Cur, element, args.depth, args.scrollSpeed, args.mouseSpeed))
        /\ DidWith("addLayer", element, args)

RemoveLayer ==
    \E element \in Elements :
        /\ Constructed
        /\ Becomes(removeLayer(Cur, element))
        /\ Did("removeLayer", element)

SetOptions ==
    \E newOptions \in NewOptions :
        /\ Constructed
        /\ Becomes(setOptions(Cur, newOptions))
        /\ Did("setOptions", "")

UpdateBounds ==
    /\ Constructed
    /\ Becomes(updateBounds(Cur))
    /\ Did("updateBounds", "")

\* The page scrolls to y; the scroll listener, if any, runs.
Scroll ==
    \E y \in ScrollPositions :
        LET s == [Cur EXCEPT !.pageYOffset = y]
        IN  /\ Becomes(IF "scroll" \in listeners THEN handleScroll(s) ELSE s)
            /\ Did("scroll", "")

MouseMove ==
    \E event \in MouseEvents :
        /\ Becomes(IF "mousemove" \in listeners THEN handleMouseMove(Cur, event) ELSE Cur)
        /\ Did("mousemove", "")

MouseLeave ==
    /\ Becomes(IF "mouseleave" \in listeners THEN handleMouseLeave(Cur) ELSE Cur)
    /\ Did("mouseleave", "")

\* The window is resized and the container's rectangle becomes r.
Resize ==
    \E r \in Rects :
        LET s == [Cur EXCEPT !.rect = r]
        IN  /\ Becomes(IF "resize" \in listeners THEN updateBounds(s) ELSE s)
            /\ Did("resize", "")

\* The browser's redraw: it takes the list of requested callbacks and calls
\* each of them; what they request is for the next redraw.
RECURSIVE runCallbacks(_, _)
runCallbacks(s, n) == IF n = 0 THEN s ELSE runCallbacks(animate(s), n - 1)

Frame ==
    LET s == runCallbacks([Cur EXCEPT !.rafPending = {}], Cardinality(rafPending))
    IN  /\ Bounded(s)
        /\ Becomes(s)
        /\ Did("frame", "")

\* The frame loop, the options and the page's events, on the registry the
\* constructor discovered.
NextLoop ==
    \/ Start
    \/ Stop
    \/ Destroy
    \/ SetOptions
    \/ UpdateBounds
    \/ Scroll
    \/ MouseMove
    \/ MouseLeave
    \/ Resize
    \/ Frame

SpecLoop == Init /\ [][NextLoop]_vars

\* The frame loop driven by scroll alone, with the registry changing.
NextRegistry ==
    \/ Start
    \/ Stop
    \/ Destroy
    \/ AddLayer
    \/ RemoveLayer
    \/ Scroll
    \/ Frame

SpecRegistry == Init /\ [][NextRegistry]_vars

\* Every operation.
Next ==
    \/ NextLoop
    \/ AddLayer
    \/ RemoveLayer

Spec == Init /\ [][Next]_vars

\* The smoothing factors in (0, 1], in tenths.
Smoothings == 1..10

\* A controller whose targets stay where they are: constructed, given a
\* smoothing factor by setOptions, then the page has scrolled and the pointer
\* has moved, and from then on only frames happen.  The browser calls the
\* requested frame callback at every redraw, so a pending tick always runs.
InitConverge ==
    \E opts \in ConstructorOptions, document \in Documents,
       y \in ScrollPositions, r \in { b \in Rects : b.left = 0 },
       smoothing \in Smoothings, y2 \in ScrollPositions, event \in MouseEvents :
        LET s0 == constructor(Some("container"), opts, document, y, r)
            s1 == setOptions(s0, [smoothing |-> smoothing])
            s2 == handleScroll([s1 EXCEPT !.pageYOffset = y2])
            s3 == handleMouseMove(s2, event)
        IN  /\ Starts(s3)
            /\ op = [New EXCEPT !.name = "mousemove", !.active = TRUE,
                                !.layers = s3.layers,
                                !.tracked = TrackedElements(s3)]
            /\ given = [class |-> "SuperParallax", THREE |-> FALSE,
                        container |-> Some("container"), document |-> document]

NextConverge == Frame

SpecConverge == InitConverge /\ [][NextConverge]_vars /\ WF_vars(Frame)

\* The page scrolls to y: the scroll listener, if any, runs.
dispatchScroll(s, y) ==
    LET s1 == [s EXCEPT !.pageYOffset = y]
    IN  IF "scroll" \in s.listeners THEN handleScroll(s1) ELSE s1

\* A pointer event reaches the listener registered for its type.
dispatchPointer(s, event) ==
    IF event.type \notin s.listeners THEN s
    ELSE IF event.type = "mousemove" THEN handleMouseMove(s, event)
         ELSE handleMouseLeave(s)

\* The events of a sequence delivered one after the other from event i on.
RECURSIVE dispatchScrolls(_, _, _)
dispatchScrolls(s, ys, i) ==
    IF i > Len(ys) THEN s ELSE dispatchScrolls(dispatchScroll(s, ys[i]), ys, i + 1)

RECURSIVE dispatchPointers(_, _, _)
dispatchPointers(s, events, i) ==
    IF i > Len(events) THEN s
    ELSE dispatchPointers(dispatchPointer(s, events[i]), events, i + 1)

\* The sequences of 1 to MaxBurst events taken from S.
Bursts(S) == UNION { [1..n -> S] : n \in 1..MaxBurst }

\* Scroll events that follow one another with no frame in between.
ScrollBurst ==
    \E ys \in Bursts(ScrollPositions) :
        /\ Becomes(dispatchScrolls(Cur, ys, 1))
        /\ Did("scrolls", ys)

\* Pointer events the controller listens to that follow one another with no
\* frame in between.
PointerBurst ==
    \E events \in Bursts({ e \in PointerEvents : e.type \in listeners }) :
        /\ Becomes(dispatchPointers(Cur, events, 1))
        /\ Did("pointers", events)

\* Frames with bursts of scroll events and of pointer events between them.
NextCoalesce ==
    \/ ScrollBurst
    \/ PointerBurst
    \/ Frame

SpecCoalesce == Init /\ [][NextCoalesce]_vars

\* What the page's script and the page can do to a controller between two
\* redraws: call start(), call stop(), scroll to y.
Calls ==
    { [name |-> "start", y |-> 0], [name |-> "stop", y |-> 0] }
        \cup { [name |-> "scroll", y |-> y] : y \in ScrollPositions }

call(s, c) ==
    IF c.name = "start" THEN start(s)
    ELSE IF c.name = "stop" THEN stop(s)
    ELSE dispatchScroll(s, c.y)

RECURSIVE callAll(_, _, _)
callAll(s, calls, i) ==
    IF i > Len(calls) THEN s ELSE callAll(call(s, calls[i]), calls, i + 1)

\* Everything that happens to the controller between one redraw and the
\* next: 1 to MaxBurst calls and events, in any order.
Interval ==
    \E calls \in Bursts(Calls) :
        /\ Constructed
        /\ Bounded(callAll(Cur, calls, 1))
        /\ Becomes(callAll(Cur, calls, 1))
        /\ Did("interval", calls)

\* Redraws, and between them start(), stop() and scroll events.
NextCadence ==
    \/ Interval
    \/ Frame

SpecCadence == Init /\ [][NextCadence]_vars

\* ------------------------------------------------------------------------
\* Properties
\* ------------------------------------------------------------------------
\* No lerp rounds: every smoothed scalar has at most one decimal digit per
\* executed tick.
LerpIsExact ==
    \A v \in {scroll, mouse.x, mouse.y} : v % (10 ^ (MaxTicks - ticks)) = 0

\* A step in which animate's body ran once.
Ticked == ticks' = ticks + 1

InputEvents == {"scroll", "mousemove", "mouseleave"}
PageEvents == InputEvents \cup {"resize"}

\* C1: every tick moves each smoothed scalar (scroll, mouse.x, mouse.y) from
\* its value before the tick to current + (target - current) * smoothing; with
\* smoothing 0.1 and the target at 100, scroll goes from 0 to 10 and from 10
\* to 19.  (For the tick start() runs, scroll's value before the tick is the
\* position start() has just seeded into scroll and targetScroll.)
C1_TickAdvancesByLerp ==
    [][Ticked =>
        LET current == IF op'.name = "start" THEN pageYOffset * Unit ELSE scroll
            target == IF op'.name = "start" THEN pageYOffset * Unit ELSE targetScroll
            smoothing == options.smoothing
        IN  /\ 10 * (scroll' - current) = (target - current) * smoothing
            /\ 10 * (mouse'.x - mouse.x) = (targetMouse.x - mouse.x) * smoothing
            /\ 10 * (mouse'.y - mouse.y) = (targetMouse.y - mouse.y) * smoothing
            /\ (smoothing = 1 /\ target = 100 * Unit /\ current = 0)
                    => scroll' = 10 * Unit
            /\ (smoothing = 1 /\ target = 100 * Unit /\ current = 10 * Unit)
                    => scroll' = 19 * Unit
    ]_vars

\* C1 witness: the second tick after the target jumped from 0 to 100 under
\* smoothing 0.1 has run.
C1_Witness ==
    /\ op.name = "frame"
    /\ op.active
    /\ options.smoothing = 1
    /\ targetScroll = 100 * Unit
    /\ scroll = 19 * Unit

\* C2: when start() is called on an idle controller, on return scroll and
\* targetScroll both equal the page's scroll position, the controller is
\* active and exactly one tick is pending, the one animationFrameId names.
C2_StartSeedsScroll ==
    (op.name = "start" /\ ~ op.active) =>
        /\ scroll = pageYOffset * Unit
        /\ targetScroll = pageYOffset * Unit
        /\ scroll = targetScroll
        /\ isActive
        /\ rafPending = {animationFrameId}
        /\ animationFrameId # 0

\* C2 witness: start() has run on an idle controller whose smoothed scroll
\* was elsewhere than the page's scroll position.
C2_Witness ==
    /\ op.name = "start"
    /\ ~ op.active
    /\ ~ destroyed
    /\ pageYOffset = 100
    /\ scroll = 100 * Unit
    /\ ticks > 0

\* C3: start() on an active controller changes nothing: not the smoothing
\* state, the registry, the options, any element's transform, the listeners
\* or the pending ticks.
C3_StartWhileRunningIsNoOp ==
    [][(op'.name = "start" /\ isActive) =>
        /\ UNCHANGED cvars
        /\ UNCHANGED evars
        /\ UNCHANGED ticks
    ]_vars

\* C3 witness: start() has been called on an active controller that had
\* not yet caught up with its target.
C3_Witness ==
    /\ op.name = "start"
    /\ op.active
    /\ scroll # targetScroll

\* C4: when stop() returns the controller is idle and no tick is pending;
\* and on an idle controller no scroll, pointer, resize or frame event runs a
\* tick: scroll, mouse and every element's transform stay as they are.
C4_StopHaltsTicks ==
    /\ [](op.name = "stop" => (~ isActive /\ rafPending = {} /\ animationFrameId = 0))
    /\ [][(~ isActive /\ op'.name \in PageEvents \cup {"frame"}) =>
            /\ UNCHANGED << scroll, mouse, style, ticks >>
            /\ ~ isActive'
            /\ rafPending' = {}
       ]_vars

\* C4 witness: a frame has passed on a controller that was stopped while
\* away from its target.
C4_Witness ==
    /\ op.name = "frame"
    /\ ~ op.active
    /\ ~ destroyed
    /\ scroll # targetScroll
    /\ mouse # targetMouse

\* C5: a stop() that follows a stop() changes nothing.
C5_StopIsIdempotent ==
    [][(op.name = "stop" /\ op'.name = "stop") =>
        /\ UNCHANGED cvars
        /\ UNCHANGED evars
        /\ UNCHANGED << ticks, destroyed >>
    ]_vars

\* C5 witness: stop() has been called on a controller that was already
\* stopped and never destroyed.
C5_Witness ==
    /\ op.name = "stop"
    /\ ~ op.active
    /\ ~ destroyed
    /\ scroll # targetScroll

\* C6: every tick leaves the controller active with a newly requested tick
\* pending, and the controller stops being active only in stop() or
\* destroy().
C6_LoopNeverEndsItself ==
    [][ /\ Ticked =>
            /\ isActive'
            /\ animationFrameId' \in rafPending'
            /\ animationFrameId' \notin rafPending
            /\ animationFrameId' # animationFrameId
        /\ (isActive /\ ~ isActive') => op'.name \in {"stop", "destroy"}
    ]_vars

\* C6 witness: a frame's tick has run with nothing left to smooth and an
\* empty registry, and the next tick is pending.
C6_Witness ==
    /\ op.name = "frame"
    /\ op.active
    /\ scroll = targetScroll
    /\ mouse = targetMouse
    /\ layers = << >>
    /\ ~ destroyed
    /\ isActive
    /\ rafPending # {}

\* C7: after destroy() every element that had a layer in the registry shows
\* its base pose, the registry is empty and no tick is pending.
C7_DestroyRestoresBasePoses ==
    op.name = "destroy" =>
        /\ \A element \in op.tracked : RenderedPose(Cur, element) = BasePose(element)
        /\ layers = << >>
        /\ rafPending = {}

\* C8: a destroyed controller is never active again and never has a tick
\* pending.
C8_DestroyedIsTerminal ==
    destroyed => (~ isActive /\ rafPending = {})

\* C9: after destroy() the controller has no listener left, and no scroll,
\* pointer or resize event changes any field of the controller, any
\* element's transform or the pending ticks.
C9_DestroyDeregistersListeners ==
    /\ [](destroyed => listeners = {})
    /\ [][(destroyed /\ op'.name \in PageEvents) =>
            /\ UNCHANGED cvars
            /\ UNCHANGED << style, listeners, rafPending, rafNextId, ticks >>
       ]_vars

\* C9 witness: after destroy() the page has scrolled, the pointer has been
\* moved over a resized container, and the controller has kept the values
\* it had.
C9_Witness ==
    /\ destroyed
    /\ op.name \in PageEvents
    /\ targetScroll # pageYOffset * Unit
    /\ bounds # Some(rect)

\* C10: removeLayer(element) on an element with a layer in the registry
\* leaves the element at its base pose and without a layer; on an element
\* with no layer it leaves the registry and the transforms as they are.
C10_RemoveLayerRestoresBasePose ==
    op.name = "removeLayer" =>
        IF op.arg \in op.tracked
        THEN RenderedPose(Cur, op.arg) = BasePose(op.arg)
        ELSE TrackedElements(Cur) = op.tracked

\* C11: addLayer(element, ...) directly followed by removeLayer(element)
\* leaves the registry (the same layers with the same coefficients in the
\* same order) and every element's rendered pose as they were before the
\* addLayer, whether or not the element already had a layer.
C11_AddThenRemoveIsIdentity ==
    [][ /\ op'.name = "addLayer" =>
            \A element \in Elements :
                RenderedPose(Cur', element) = RenderedPose(Cur, element)
        /\ (op.name = "addLayer" /\ op'.name = "removeLayer" /\ op'.arg = op.arg) =>
            /\ layers' = op.layers
            /\ \A element \in Elements :
                   RenderedPose(Cur', element) = RenderedPose(Cur, element)
    ]_vars

\* The pose a layer's initialTransform stands for: '' is no transform.
InitialPose(layer) ==
    IF layer.initialTransform = EmptyString
    THEN Pose(ComputedNone)
    ELSE Pose(Resolve(layer.initialTransform))

\* C12: every layer in the registry holds as its initialTransform the pose
\* its element had before this controller wrote any offset to it.
C12_BasePoseIsOriginalPose ==
    \A i \in 1..Len(layers) : InitialPose(layers[i]) = BasePose(layers[i].element)

\* The translate3d at the end of an element's inline transform: the offset
\* the controller wrote, x and y in units of 1/(200 * Unit) px.
Offset(str) == str[Len(str)]

C14_AxisXMovesOnlyHorizontally ==
    [][ ticks' > ticks =>
          \A i \in 1..Len(layers') :
              layers'[i].axis = "x" => Offset(style'[layers'[i].element]).y = 0
    ]_vars

\* C15: setOptions(partial) gives every option named in partial its new value
\* and leaves the others; from then on the controller behaves by the current
\* options: a frame's tick smooths by the current smoothing and writes
\* offsets by the current multipliers, and on a controller that is not
\* destroyed a pointer-leave event resets targetMouse to (0, 0) exactly when
\* the current resetOnMouseLeave is true.
C15_SetOptionsGovernsBehaviour ==
    [][ /\ op'.name = "setOptions" =>
            \E partial \in NewOptions :
                /\ \A k \in DOMAIN partial : options'[k] = partial[k]
                /\ \A k \in (DOMAIN options) \ (DOMAIN partial) : options'[k] = options[k]
        /\ (op'.name = "frame" /\ ticks' = ticks + 1) =>
            /\ 10 * (scroll' - scroll) = (targetScroll - scroll) * options.smoothing
            /\ \A i \in 1..Len(layers') :
                  layers'[i].axis = "both" =>
                      Offset(style'[layers'[i].element]).y =
                          mouse'.y * layers'[i].mouseSpeed * options.mouseMultiplier * 100
                          - scroll' * layers'[i].scrollSpeed * options.scrollMultiplier
        /\ (op'.name = "mouseleave" /\ Constructed /\ ~ destroyed) =>
            targetMouse' = IF options.resetOnMouseLeave
                           THEN [x |-> 0, y |-> 0]
                           ELSE targetMouse
    ]_vars

\* C16: when the container given to either constructor is not found, or the
\* global THREE is missing for SuperParallax3D, the constructor throws and
\* nothing of the controller exists then or later: no listener, no layer, no
\* pending or executed tick, no transform written.
C16_ConstructionFailsFast ==
    ( \/ given.container = Absent
      \/ (given.class = "SuperParallax3D" /\ ~ given.THREE) ) =>
        /\ thrown # Absent
        /\ listeners = {}
        /\ layers = << >>
        /\ rafPending = {}
        /\ animationFrameId = 0
        /\ ~ isActive
        /\ ticks = 0
        /\ \A element \in Elements : style[element] = EmptyString

\* C16 witness: new SuperParallax(container) found no container and threw,
\* and since then the page has scrolled to 100.
C16_Witness ==
    /\ given.class = "SuperParallax"
    /\ given.container = Absent
    /\ thrown = Some("Container element not found")
    /\ op.name = "scroll"
    /\ pageYOffset = 100

\* What a layer registered from the optional numbers depth, scrollSpeed and
\* mouseSpeed holds when every supplied number is kept and a missing speed
\* takes the depth (a missing depth is 1).
KeepsSupplied(layer, depth, scrollSpeed, mouseSpeed) ==
    /\ layer.depth = IF depth = Absent THEN 10 ELSE depth[1]
    /\ layer.scrollSpeed = IF scrollSpeed = Absent THEN layer.depth ELSE scrollSpeed[1]
    /\ layer.mouseSpeed = IF mouseSpeed = Absent THEN layer.depth ELSE mouseSpeed[1]

\* C17: a layer discovered at construction holds the depth, scroll speed and
\* mouse speed of its markup, and the layer addLayer appends holds the
\* numbers it was given, 0 included; a speed that was not supplied is the
\* depth.
C17_SuppliedCoefficientsAreKept ==
    /\ (op.name = "new" /\ Constructed) =>
          /\ Len(layers) = Len(given.document)
          /\ \A i \in 1..Len(layers) :
                KeepsSupplied(layers[i], given.document[i].depth,
                              given.document[i].scroll, given.document[i].mouse)
    /\ op.name = "addLayer" =>
          KeepsSupplied(layers[Len(layers)], op.args.depth,
                        op.args.scrollSpeed, op.args.mouseSpeed)

\* |b - a|
Distance(a, b) == IF b >= a THEN b - a ELSE a - b

\* The distances to their targets of the three smoothed scalars.
Distances(s) ==
    << Distance(s.scroll, s.targetScroll),
       Distance(s.mouse.x, s.targetMouse.x),
       Distance(s.mouse.y, s.targetMouse.y) >>

\* For smoothing k tenths, what the largest distance a scalar can start at in
\* InitConverge (100 for scroll, 2 for each pointer coordinate) shrinks to
\* by MaxTicks ticks that each multiply it by 1 - k/10; in units of 1/Unit.
EpsilonOf ==
    [k \in Smoothings |->
        << 100 * ((10 - k) ^ MaxTicks),
           2 * ((10 - k) ^ MaxTicks),
           2 * ((10 - k) ^ MaxTicks) >>]

C19_InputEventsWriteOnlyTargets ==
    [][ op'.name \in InputEvents =>
          /\ UNCHANGED << scroll, mouse, layers, options, bounds >>
          /\ UNCHANGED << isActive, animationFrameId, destroyed, listeners >>
          /\ UNCHANGED << rafPending, rafNextId, ticks, style >>
    ]_vars

\* C19 witness: on a running controller a scroll event has just moved
\* targetScroll away from scroll while the pointer target is off the
\* smoothed pointer position too.
C19_Witness ==
    /\ op.name = "scroll"
    /\ "scroll" \in listeners
    /\ isActive
    /\ targetScroll # scroll
    /\ targetMouse # mouse
    /\ layers # << >>

\* One lerp step of a smoothed scalar towards the target the tick read.
OneLerp(before, target, after) ==
    10 * (after - before) = (target - before) * options.smoothing

Last(events) == events[Len(events)]

\* C21: scroll events (pointer events) that follow one another between two
\* ticks leave the controller as the last of them alone would have, and the
\* tick that follows advances scroll (mouse) by one lerp step towards the
\* value that last event sampled.
C21_LastEventBeforeTickWins ==
    [][ /\ op'.name = "scrolls" =>
              Cur' = dispatchScroll(Cur, Last(op'.arg))
        /\ op'.name = "pointers" =>
              Cur' = dispatchPointer(Cur, Last(op'.arg))
        /\ (op.name = "scrolls" /\ "scroll" \in listeners /\ ticks' = ticks + 1) =>
              OneLerp(scroll, Last(op.arg) * Unit, scroll')
        /\ (op.name = "pointers" /\ ticks' = ticks + 1) =>
              LET sampled == dispatchPointer(Cur, Last(op.arg)).targetMouse
              IN  /\ OneLerp(mouse.x, sampled.x, mouse'.x)
                  /\ OneLerp(mouse.y, sampled.y, mouse'.y)
    ]_vars

\* C21 witness: between two ticks of a running controller the pointer events
\* of a burst have sampled different positions, and the pointer target is
\* the one the last event sampled.
C21_Witness ==
    /\ op.name = "pointers"
    /\ op.active
    /\ isActive
    /\ ticks > 0
    /\ Len(op.arg) > 1
    /\ dispatchPointer(Cur, op.arg[1]).targetMouse # targetMouse
    /\ dispatchPointer(Cur, Last(op.arg)).targetMouse = targetMouse
    /\ targetMouse # mouse

\* C22: from one redraw to the next the controller executes at most one
\* tick, whatever start(), stop() and scroll events come in between: the
\* tick the redraw ran, if it ran one, and the ticks executed before the next
\* redraw are together at most one.
C22_OneTickPerFrame ==
    [][ (op.name = "frame" /\ op'.name = "interval") =>
            (IF op.active THEN 1 ELSE 0) + (ticks' - ticks) <= 1
    ]_vars

\* C23: between operations at most one frame callback of the controller is
\* pending, and one is pending exactly when the controller is active; the
\* pending one is the one animationFrameId names.
C23_OnePendingTickIffActive ==
    /\ Cardinality(rafPending) <= 1
    /\ (rafPending # {}) <=> isActive
    /\ isActive => rafPending = {animationFrameId}

\* C23 witness: stop() then start() have been called after some frames, and
\* the controller is active with a single callback pending.
C23_Witness ==
    /\ op.name = "start"
    /\ ~ op.active
    /\ ~ destroyed
    /\ ticks = MaxTicks
    /\ isActive
    /\ Cardinality(rafPending) = 1
    /\ rafNextId > 3

====
